---- MODULE Spec2Model ----
(***************************************************************************)
(* Model of src/main.c: a USB HID mouse fed by an analog joystick and by   *)
(* a serial (CDC) command line.  The main loop runs tud_task, hid_task and *)
(* cdc_task in turn; hid_task arbitrates between a pending serial command  *)
(* and the joystick, cdc_task parses one received buffer per call.         *)
(***************************************************************************)
EXTENDS Integers, Sequences, FiniteSets, TLC

VARIABLES
  now,                      \* board_millis(): the 32-bit millisecond clock
  rx,                       \* bytes waiting in the CDC receive FIFO (a token line)
  pc,                       \* position in the main loop: "tud", "hid", "cdc"
  mouse_cmd,                \* the pending-command slot
  cdc_command_time,         \* time of the last accepted command
  sensitivity_level,        \* 1..3
  start_ms,                 \* hid_task static: next tick time
  last_button_state,        \* hid_task static
  button_press_start_time,  \* hid_task static
  sensitivity_changed,      \* hid_task static
  ev,                       \* what the last call did (gate, path, reports, ack)
  hist,                     \* history: elapsed time, acceptance and press records
  iter                      \* main loop iterations so far

vars == <<now, rx, pc, mouse_cmd, cdc_command_time, sensitivity_level, start_ms,
          last_button_state, button_press_start_time, sensitivity_changed,
          ev, hist, iter>>

-----------------------------------------------------------------------------
(* Bounds of the exploration *)

MaxIter  == 4       \* main loop iterations explored
MaxLines == 2       \* serial buffers received
MaxPress == 3       \* main loop iterations explored from a state of AxisStates

-----------------------------------------------------------------------------
(* Program constants *)

CDC_BLOCK_TIMEOUT    == 500
BUTTON_PRESS_TIMEOUT == 1000
HidIntervalMs        == 1
HeadByte             == 55
NumLevels            == 3
DefaultLevel         == 2
AdcCenter            == 2048
AdcDeadzone          == 100
AdcMax               == 4095
AxisMax              == 127
YAxisFactor          == 4
JitterBase           == 2
JitterPercent        == 3
NumFields            == 7
IntMax               == 2147483647

sensitivity_divisors == <<5, 10, 30>>

-----------------------------------------------------------------------------
(* C integer arithmetic *)

\* A uint32_t is kept as two 16-bit halves <<hi, lo>>: its value is hi * 65536 + lo.
U32(n) == << (n \div 65536) % 65536, n % 65536 >>

\* a + n modulo 2^32, for 0 <= n < 2^31
U32Add(a, n) ==
  LET s == a[2] + n IN << (a[1] + s \div 65536) % 65536, s % 65536 >>

\* a - b modulo 2^32
U32Sub(a, b) ==
  LET d == a[2] - b[2] IN << (a[1] - b[1] + d \div 65536) % 65536, d % 65536 >>

\* unsigned a < n, for 0 <= n <= 65536
U32Below(a, n) == a[1] = 0 /\ a[2] < n

ToU8(n) == n % 256

ToI8(n) == LET m == n % 256 IN IF m >= 128 THEN m - 256 ELSE m

\* a + b as an int: beyond INT_MAX or INT_MIN the addition is undefined and the
\* builds wrap modulo 2^32
Add32(a, b) ==
  IF a > 0 /\ b > 0 /\ a > IntMax - b
    THEN (a - IntMax - 1) + (b - IntMax - 1)
  ELSE IF a < 0 /\ b < 0 /\ a < (-IntMax - 1) - b
    THEN (a + IntMax + 1) + (b + IntMax + 1)
  ELSE a + b

\* C division: truncation toward zero (b > 0)
CDiv(a, b) == IF a >= 0 THEN a \div b ELSE -((-a) \div b)

-----------------------------------------------------------------------------
(* read_joystick: axis mapping *)

\* mutant: the deadzone is not taken off the deflection
MapAxis_nodeadzone(v) ==
  LET raw == IF v > AdcCenter + AdcDeadzone
               THEN ToI8(CDiv((v - AdcCenter) * AxisMax,
                              AdcMax - AdcCenter - AdcDeadzone))
             ELSE IF v < AdcCenter - AdcDeadzone
               THEN ToI8(CDiv((v - AdcCenter) * AxisMax,
                              AdcCenter - AdcDeadzone))
             ELSE 0
  IN  IF raw > AxisMax THEN AxisMax
      ELSE IF raw < -AxisMax THEN -AxisMax
      ELSE raw

MapAxis(v) ==
  LET raw == IF v > AdcCenter + AdcDeadzone
               THEN ToI8(CDiv((v - AdcCenter - AdcDeadzone) * AxisMax,
                              AdcMax - AdcCenter - AdcDeadzone))
             ELSE IF v < AdcCenter - AdcDeadzone
               THEN ToI8(CDiv((v - AdcCenter + AdcDeadzone) * AxisMax,
                              AdcCenter - AdcDeadzone))
             ELSE 0
  IN  IF raw > AxisMax THEN AxisMax
      ELSE IF raw < -AxisMax THEN -AxisMax
      ELSE raw

(* hid_task: sensitivity scaling *)

\* sensitivity_divisors[level - 1]; a read outside the 3-entry table is
\* undefined and may yield any non-zero byte (a zero would trap the division)
DivisorAt(level) ==
  IF level \in 1..Len(sensitivity_divisors)
    THEN {sensitivity_divisors[level]}
    ELSE 0..255

ScaleX(j, divisor) == ToI8(CDiv(j, divisor))

ScaleY(j, level, divisor) ==
  IF level = 1 \/ level = 2
    THEN ToI8(CDiv(j, divisor * YAxisFactor))
    ELSE ToI8(CDiv(j, divisor))

\* lines 415-425: mouse_x and mouse_y for the mapped deltas j at a level 1..3
ScaledAt(j, level) ==
  << ScaleX(j[1], sensitivity_divisors[level]),
     ScaleY(j[2], level, sensitivity_divisors[level]) >>

-----------------------------------------------------------------------------
(* Reports handed to tud_hid_mouse_report *)

Report(src, b, x, y, w, p) ==
  [src |-> src, buttons |-> b, x |-> x, y |-> y, wheel |-> w, pan |-> p]

\* mutant: the product alone is rounded, and rounded down
Jitter_floor(r, v) == ToI8((r - JitterBase) + ((JitterPercent * v) \div 100))

\* int8_t rand = (rand() % 2) - 2 + v * 0.03: the double is converted by
\* truncation. For an int8_t v the double sum is an integer exactly when
\* 3 * v / 100 is one (v = 0, 100, -100), and 100 * 0.03 is 3.0 in binary64,
\* so the exact quotient truncates to the same integer.
Jitter(r, v) == ToI8(CDiv((r - JitterBase) * 100 + JitterPercent * v, 100))

CmdReports(cmd, r1, r2) ==
  << Report("cmd", cmd.buttons,
            ToI8(cmd.x + Jitter(r1, cmd.x)),
            ToI8(cmd.y + Jitter(r2, cmd.y)),
            cmd.wheel, cmd.pan) >>

\* mutant: the click test is an independent if, not an else-if
JoyReports_both(mx, my, b, changed) ==
  (IF mx # 0 \/ my # 0 THEN << Report("move", 0, mx, my, 0, 0) >> ELSE << >>)
  \o (IF b = 1 /\ ~changed THEN << Report("click", 1, 0, 0, 0, 0) >> ELSE << >>)

JoyReports(mx, my, b, changed) ==
  IF mx # 0 \/ my # 0 THEN << Report("move", 0, mx, my, 0, 0) >>
  ELSE IF b = 1 /\ ~changed THEN << Report("click", 1, 0, 0, 0, 0) >>
  ELSE << >>

-----------------------------------------------------------------------------
(* hid_task: gates and the long-press state machine *)

\* mutant: the interval is 0
GateClosed_nointerval(t, s) == U32Below(U32Sub(t, s), 0)

GateClosed(t, s) == U32Below(U32Sub(t, s), HidIntervalMs)

\* mutant: the operands of the subtraction are swapped
InBlockWindow_swapped(t, c) == U32Below(U32Sub(c, t), CDC_BLOCK_TIMEOUT)

InBlockWindow(t, c) == U32Below(U32Sub(t, c), CDC_BLOCK_TIMEOUT)

PressEdge(b, last) == b = 1 /\ last = 0

\* mutant: the sensitivity_changed latch is not tested
LongPress_nolatch(b, changed, t, start) ==
  b = 1 /\ ~U32Below(U32Sub(t, start), BUTTON_PRESS_TIMEOUT)

LongPress(b, changed, t, start) ==
  b = 1 /\ ~changed /\ ~U32Below(U32Sub(t, start), BUTTON_PRESS_TIMEOUT)

\* mutant: the wrap back to level 1 is missing
NextLevel_nowrap(l) == ToU8(l + 1)

NextLevel(l) == IF ToU8(l + 1) > NumLevels THEN 1 ELSE ToU8(l + 1)

-----------------------------------------------------------------------------
(* cdc_task: sscanf("%d %d %d %d %d %d %d") over a line of tokens.           *)
(* A token is an integer ("int"), an integer directly followed by other    *)
(* characters ("intjunk", e.g. 6x) or text with no leading integer ("junk").*)

I(v)  == [k |-> "int", v |-> v]
IJ(v) == [k |-> "intjunk", v |-> v]
Junk  == [k |-> "junk", v |-> 0]

NoLine == << >>

RECURSIVE ScanFrom(_, _, _)
ScanFrom(toks, i, acc) ==
  IF i > NumFields \/ i > Len(toks) THEN acc
  ELSE IF toks[i].k = "int" THEN ScanFrom(toks, i + 1, Append(acc, toks[i].v))
  ELSE IF toks[i].k = "intjunk" THEN Append(acc, toks[i].v)
  ELSE acc

\* the values converted; sscanf returns their number
ScanInts(toks) == ScanFrom(toks, 1, << >>)

\* int calc_sum = btn + x + y + wheel + pan, added from left to right
CalcSum(v) == Add32(Add32(Add32(Add32(v[2], v[3]), v[4]), v[5]), v[6])

ValidFrame(v) == v[1] = HeadByte /\ CalcSum(v) = v[7]

\* mutant: out-of-range values saturate instead of wrapping
StoreCmd_saturate(v) ==
  LET Sat(n, lo, hi) == IF n < lo THEN lo ELSE IF n > hi THEN hi ELSE n IN
  [buttons |-> Sat(v[2], 0, 255), x |-> Sat(v[3], -128, 127),
   y |-> Sat(v[4], -128, 127), wheel |-> Sat(v[5], -128, 127),
   pan |-> Sat(v[6], -128, 127), has_data |-> TRUE]

\* mutant: an unconsumed command is not overwritten
StoreCmd_keep(v) ==
  IF mouse_cmd.has_data THEN mouse_cmd
  ELSE [buttons |-> ToU8(v[2]), x |-> ToI8(v[3]), y |-> ToI8(v[4]),
        wheel |-> ToI8(v[5]), pan |-> ToI8(v[6]), has_data |-> TRUE]

StoreCmd(v) ==
  [buttons |-> ToU8(v[2]), x |-> ToI8(v[3]), y |-> ToI8(v[4]),
   wheel |-> ToI8(v[5]), pan |-> ToI8(v[6]), has_data |-> TRUE]

CdcAck(toks) ==
  LET v == ScanInts(toks) IN
  IF Len(v) = NumFields
    THEN IF ValidFrame(v) THEN "ok" ELSE "protocol error"
    ELSE "format error"

-----------------------------------------------------------------------------
(* Inputs of the exploration *)

\* milliseconds from the last reading of board_millis() to the one at line 370
TimeSteps == {0, 499, 1000}

\* rand() % 2 at lines 377 and 378, drawn independently
RandDraws == {0, 1} \X {0, 1}

\* milliseconds from the reading at line 370 to the one at line 168
CdcSteps == {0, 1}

RawPairs == { <<2048, 2048>>, <<4095, 2048>> }

LineA == << I(55), I(1), I(10), I(-5), I(0), I(0), I(6) >>
LineB == << I(55), I(2), I(-128), I(127), I(1), I(-1), I(1) >>
LineBadSum == << I(55), I(1), I(10), I(-5), I(0), I(0), I(7) >>

\* the lines the host sends, in this order and then over again
SpecLines == << LineA, LineB >>

\* the line that follows k lines already sent
LineAt(k) == SpecLines[(k % Len(SpecLines)) + 1]

-----------------------------------------------------------------------------
(* State *)

NoEv == [op |-> "init", gate |-> FALSE, ready |-> FALSE, path |-> "none",
         reports |-> << >>, changed |-> FALSE, ack |-> "none", line |-> << >>,
         again |-> FALSE, raw |-> << >>, joy |-> << >>, scaled |-> << >>,
         same |-> FALSE]

Init ==
  /\ now = U32(0)
  /\ rx = NoLine
  /\ pc = "tud"
  /\ mouse_cmd = [buttons |-> 0, x |-> 0, y |-> 0, wheel |-> 0, pan |-> 0,
                  has_data |-> FALSE]
  /\ cdc_command_time = U32(0)
  /\ sensitivity_level = DefaultLevel
  /\ start_ms = U32(0)
  /\ last_button_state = 0
  /\ button_press_start_time = U32(0)
  /\ sensitivity_changed = FALSE
  /\ ev = NoEv
  /\ hist = [elapsed |-> 0, lines |-> 0, accepted |-> 0, acceptedAt |-> -1,
             lastLine |-> << >>, cmdReports |-> 0, button |-> 0,
             heldSince |-> -1, changes |-> 0, pressChanges |-> 0,
             ticks |-> 0, tickNow |-> FALSE, releaseDue |-> FALSE]
  /\ iter = 0

-----------------------------------------------------------------------------
(* tud_task: the USB stack runs; time passes and serial bytes may arrive *)

TudTask(d, line) ==
  /\ pc = "tud"
  /\ iter < MaxIter
  /\ line # NoLine => hist.lines < MaxLines
  /\ now' = U32Add(now, d)
  /\ rx' = line
  /\ pc' = "hid"
  /\ iter' = iter + 1
  /\ ev' = [NoEv EXCEPT !.op = "tud"]
  /\ hist' = [hist EXCEPT !.elapsed = @ + d,
                           !.lines = IF line # NoLine THEN @ + 1 ELSE @,
                           !.tickNow = IF d > 0 THEN FALSE ELSE @]
  /\ UNCHANGED <<mouse_cmd, cdc_command_time, sensitivity_level, start_ms,
                 last_button_state, button_press_start_time, sensitivity_changed>>

-----------------------------------------------------------------------------
(* hid_task *)

\* again: an earlier call already passed the time gate at this clock value
HidEv(ready, path, reports) ==
  [NoEv EXCEPT !.op = "hid", !.gate = TRUE, !.ready = ready, !.path = path,
               !.reports = reports, !.again = hist.tickNow]

\* a click report is the last report sent and every tick since then ran the
\* joystick path
ReleaseDue(reports) ==
  IF reports = << >> THEN hist.releaseDue
  ELSE reports[Len(reports)].src = "click"

\* the button level at a tick that passed the time gate, read or not
Sampled(b) ==
  [hist EXCEPT !.button = b,
               !.heldSince = IF b = 0 THEN -1
                             ELSE IF hist.button = 0 THEN hist.elapsed ELSE @,
               !.pressChanges = IF b = 0 THEN 0 ELSE @,
               !.ticks = @ + 1,
               !.tickNow = TRUE,
               !.releaseDue = FALSE]

\* line 370: not enough time
HidGateClosed ==
  /\ GateClosed(now, start_ms)
  /\ ev' = [NoEv EXCEPT !.op = "hid"]
  /\ UNCHANGED <<mouse_cmd, sensitivity_level, start_ms, last_button_state,
                 button_press_start_time, sensitivity_changed, hist>>

\* mutant: the pending slot is cleared before the readiness test
HidNotReady_drop(b) ==
  /\ ~GateClosed(now, start_ms)
  /\ start_ms' = U32Add(start_ms, HidIntervalMs)
  /\ ev' = HidEv(FALSE, "notready", << >>)
  /\ hist' = Sampled(b)
  /\ mouse_cmd' = [mouse_cmd EXCEPT !.has_data = FALSE]
  /\ UNCHANGED <<sensitivity_level, last_button_state,
                 button_press_start_time, sensitivity_changed>>

\* line 373: the HID endpoint is busy or not mounted
HidNotReady(b) ==
  /\ ~GateClosed(now, start_ms)
  /\ start_ms' = U32Add(start_ms, HidIntervalMs)
  /\ ev' = HidEv(FALSE, "notready", << >>)
  /\ hist' = Sampled(b)
  /\ UNCHANGED <<mouse_cmd, sensitivity_level, last_button_state,
                 button_press_start_time, sensitivity_changed>>

\* mutant: has_data is not cleared after the report
HidCommand_noclear(b, r1, r2) ==
  /\ ~GateClosed(now, start_ms)
  /\ mouse_cmd.has_data
  /\ start_ms' = U32Add(start_ms, HidIntervalMs)
  /\ ev' = HidEv(TRUE, "cmd", CmdReports(mouse_cmd, r1, r2))
  /\ hist' = [Sampled(b) EXCEPT !.cmdReports = @ + 1]
  /\ UNCHANGED <<mouse_cmd, sensitivity_level, last_button_state,
                 button_press_start_time, sensitivity_changed>>

\* lines 376-382: a pending command is sent and the slot cleared
\* (the button is not read on this path: b is what the key does meanwhile)
HidCommand(b, r1, r2) ==
  /\ ~GateClosed(now, start_ms)
  /\ mouse_cmd.has_data
  /\ start_ms' = U32Add(start_ms, HidIntervalMs)
  /\ ev' = HidEv(TRUE, "cmd", CmdReports(mouse_cmd, r1, r2))
  /\ mouse_cmd' = [mouse_cmd EXCEPT !.has_data = FALSE]
  /\ hist' = [Sampled(b) EXCEPT !.cmdReports = @ + 1]
  /\ UNCHANGED <<sensitivity_level, last_button_state,
                 button_press_start_time, sensitivity_changed>>

\* lines 385-388: inside the block window the joystick is not processed
\* mutant: the button is read and recorded before the window test
HidBlocked_reads(b) ==
  /\ ~GateClosed(now, start_ms)
  /\ ~mouse_cmd.has_data
  /\ InBlockWindow(now, cdc_command_time)
  /\ start_ms' = U32Add(start_ms, HidIntervalMs)
  /\ ev' = HidEv(TRUE, "skip", << >>)
  /\ hist' = Sampled(b)
  /\ last_button_state' = b
  /\ UNCHANGED <<mouse_cmd, sensitivity_level,
                 button_press_start_time, sensitivity_changed>>

HidBlocked(b) ==
  /\ ~GateClosed(now, start_ms)
  /\ ~mouse_cmd.has_data
  /\ InBlockWindow(now, cdc_command_time)
  /\ start_ms' = U32Add(start_ms, HidIntervalMs)
  /\ ev' = HidEv(TRUE, "skip", << >>)
  /\ hist' = Sampled(b)
  /\ UNCHANGED <<mouse_cmd, sensitivity_level, last_button_state,
                 button_press_start_time, sensitivity_changed>>

\* lines 390-434: the joystick path
HidJoystick(b, raw) ==
  /\ ~GateClosed(now, start_ms)
  /\ ~mouse_cmd.has_data
  /\ ~InBlockWindow(now, cdc_command_time)
  /\ start_ms' = U32Add(start_ms, HidIntervalMs)
  /\ IF PressEdge(b, last_button_state)
       THEN /\ button_press_start_time' = now
            /\ sensitivity_changed' = FALSE
            /\ sensitivity_level' = sensitivity_level
       ELSE IF LongPress(b, sensitivity_changed, now, button_press_start_time)
       THEN /\ sensitivity_level' = NextLevel(sensitivity_level)
            /\ sensitivity_changed' = TRUE
            /\ button_press_start_time' = button_press_start_time
       ELSE UNCHANGED <<sensitivity_level, sensitivity_changed,
                        button_press_start_time>>
  /\ last_button_state' = b
  /\ \E current_divisor \in DivisorAt(sensitivity_level') :
       LET joystick_x == MapAxis(raw[1])
           joystick_y == MapAxis(raw[2])
           mouse_x == ScaleX(joystick_x, current_divisor)
           mouse_y == ScaleY(joystick_y, sensitivity_level', current_divisor)
           sent == JoyReports(mouse_x, mouse_y, b, sensitivity_changed')
       IN  /\ ev' = [HidEv(TRUE, IF current_divisor = 0 THEN "trap" ELSE "joy",
                          IF current_divisor = 0 THEN << >> ELSE sent) EXCEPT
                       !.changed = (sensitivity_level' # sensitivity_level),
                       !.raw = raw,
                       !.joy = <<joystick_x, joystick_y>>,
                       !.scaled = IF current_divisor = 0 THEN << >>
                                  ELSE <<mouse_x, mouse_y>>,
                       !.same = /\ sensitivity_level' = sensitivity_level
                                /\ last_button_state' = last_button_state
                                /\ button_press_start_time' = button_press_start_time
                                /\ sensitivity_changed' = sensitivity_changed]
           /\ hist' = [Sampled(b) EXCEPT
                         !.changes = IF sensitivity_level' # sensitivity_level
                                       THEN @ + 1 ELSE @,
                         !.pressChanges = IF sensitivity_level' # sensitivity_level
                                            THEN @ + 1 ELSE @,
                         !.releaseDue = IF current_divisor = 0 THEN FALSE
                                        ELSE ReleaseDue(sent)]
  /\ UNCHANGED mouse_cmd

\* hid_task returns to the main loop, unless the division at line 416 was by a
\* zero byte and the program was stopped there
HidReturn == IF ev'.path = "trap" THEN "halt" ELSE "cdc"

HidTask ==
  /\ pc = "hid"
  /\ UNCHANGED <<now, rx, cdc_command_time, iter>>
  /\ \/ HidGateClosed
     \/ \E b \in {0, 1} :
          \/ HidNotReady(b)
          \/ \E r \in RandDraws : HidCommand(b, r[1], r[2])
          \/ HidBlocked(b)
          \/ \E raw \in RawPairs : HidJoystick(b, raw)
  /\ pc' = HidReturn

-----------------------------------------------------------------------------
(* cdc_task *)

CdcEv(ack, line) == [NoEv EXCEPT !.op = "cdc", !.ack = ack, !.line = line]

\* variant: the time stamp is taken as soon as seven integers were read
CdcTask_stampAll(d) ==
  /\ pc = "cdc"
  /\ pc' = "tud"
  /\ rx' = NoLine
  /\ IF rx = NoLine
       THEN /\ d = 0
            /\ ev' = CdcEv("none", NoLine)
            /\ UNCHANGED <<now, mouse_cmd, cdc_command_time, hist>>
       ELSE LET v == ScanInts(rx) IN
            /\ ev' = CdcEv(CdcAck(rx), rx)
            /\ IF Len(v) = NumFields
                 THEN /\ now' = U32Add(now, d)
                      /\ cdc_command_time' = now'
                 ELSE /\ d = 0
                      /\ UNCHANGED <<now, cdc_command_time>>
            /\ IF Len(v) = NumFields /\ ValidFrame(v)
                 THEN /\ mouse_cmd' = StoreCmd(v)
                      /\ hist' = [hist EXCEPT !.elapsed = @ + d,
                                               !.accepted = @ + 1,
                                               !.acceptedAt = hist.elapsed + d,
                                               !.lastLine = v,
                                               !.tickNow = IF d > 0 THEN FALSE
                                                           ELSE @]
                 ELSE /\ mouse_cmd' = mouse_cmd
                      /\ hist' = [hist EXCEPT !.elapsed = @ + d,
                                               !.tickNow = IF d > 0 THEN FALSE
                                                           ELSE @]
  /\ UNCHANGED <<sensitivity_level, start_ms, last_button_state,
                 button_press_start_time, sensitivity_changed, iter>>

\* board_millis() is read again at line 168, d milliseconds after hid_task
\* read it; a call that does not reach line 168 does not read the clock
CdcTask(d) ==
  /\ pc = "cdc"
  /\ pc' = "tud"
  /\ rx' = NoLine
  /\ IF rx = NoLine
       THEN /\ d = 0
            /\ ev' = CdcEv("none", NoLine)
            /\ UNCHANGED <<now, mouse_cmd, cdc_command_time, hist>>
       ELSE LET v == ScanInts(rx) IN
            /\ ev' = CdcEv(CdcAck(rx), rx)
            /\ IF Len(v) = NumFields /\ ValidFrame(v)
                 THEN /\ mouse_cmd' = StoreCmd(v)
                      /\ now' = U32Add(now, d)
                      /\ cdc_command_time' = now'
                      /\ hist' = [hist EXCEPT !.elapsed = @ + d,
                                               !.accepted = @ + 1,
                                               !.acceptedAt = hist.elapsed + d,
                                               !.lastLine = v,
                                               !.tickNow = IF d > 0 THEN FALSE
                                                           ELSE @]
                 ELSE /\ d = 0
                      /\ UNCHANGED <<now, mouse_cmd, cdc_command_time, hist>>
  /\ UNCHANGED <<sensitivity_level, start_ms, last_button_state,
                 button_press_start_time, sensitivity_changed, iter>>

Next ==
  \/ \E d \in TimeSteps, line \in {NoLine, LineAt(hist.lines)} : TudTask(d, line)
  \/ HidTask
  \/ \E d \in CdcSteps : CdcTask(d)

Spec == Init /\ [][Next]_vars

-----------------------------------------------------------------------------
(* cdc_task alone, on one received buffer drawn from a larger set of lines *)

Frames ==
  { << I(h), I(b), I(x), I(y), I(w), I(p), I(b + x + y + w + p + e) >> :
      h \in {55, 54}, b \in {0, 1, 255, 256, -1}, x \in {10, 127, 128, -129},
      y \in {-5, 300}, w \in {0, -128}, p \in {0, 129}, e \in {0, 1} }

\* lines cut short, with a token that is no integer, or with more tokens
Malformed(l) ==
  {SubSeq(l, 1, k) : k \in 1..(Len(l) - 1)}
  \cup {[l EXCEPT ![k] = Junk] : k \in 1..Len(l)}
  \cup {[l EXCEPT ![k] = IJ(l[k].v)] : k \in 1..Len(l)}
  \cup {Append(l, t) : t \in {I(9), Junk}}

\* what is left of a line when a read returned only its first tokens
Tails(l) == {SubSeq(l, k, Len(l)) : k \in 2..Len(l)}

\* lines on which btn + x + y + wheel + pan leaves the range of int
OverflowLines ==
  { << I(55), I(IntMax), I(1), I(0), I(0), I(0), I(-IntMax - 1) >>,
    << I(55), I(IntMax), I(127), I(127), I(127), I(127), I(-2147483141) >>,
    << I(55), I(-IntMax - 1), I(-1), I(0), I(0), I(0), I(IntMax) >>,
    << I(55), I(IntMax), I(1), I(-1), I(0), I(0), I(IntMax) >>,
    << I(55), I(IntMax), I(IntMax), I(0), I(0), I(0), I(-2) >>,
    << I(55), I(IntMax), I(1), I(0), I(0), I(0), I(IntMax) >> }

ParseLines ==
  Frames \cup OverflowLines
  \cup UNION {Malformed(l) \cup Tails(l) : l \in {LineA, LineB, LineBadSum}}

ParseClocks == { <<0, 0>>, <<0, 1234>>, <<65535, 65535>> }

InitParse ==
  /\ now \in ParseClocks
  /\ rx \in ParseLines
  /\ pc = "cdc"
  /\ \/ /\ mouse_cmd = [buttons |-> 0, x |-> 0, y |-> 0, wheel |-> 0, pan |-> 0,
                         has_data |-> FALSE]
        /\ hist = [elapsed |-> 0, lines |-> 1, accepted |-> 0, acceptedAt |-> -1,
                   lastLine |-> << >>, cmdReports |-> 0, button |-> 0,
                   heldSince |-> -1, changes |-> 0, pressChanges |-> 0,
                   ticks |-> 0, tickNow |-> FALSE, releaseDue |-> FALSE]
     \/ /\ mouse_cmd = [buttons |-> 1, x |-> 10, y |-> -5, wheel |-> 0, pan |-> 0,
                         has_data |-> TRUE]
        /\ hist = [elapsed |-> 0, lines |-> 2, accepted |-> 1, acceptedAt |-> 0,
                   lastLine |-> ScanInts(LineA), cmdReports |-> 0, button |-> 0,
                   heldSince |-> -1, changes |-> 0, pressChanges |-> 0,
                   ticks |-> 0, tickNow |-> FALSE, releaseDue |-> FALSE]
  /\ cdc_command_time = U32(0)
  /\ sensitivity_level = DefaultLevel
  /\ start_ms = now
  /\ last_button_state = 0
  /\ button_press_start_time = U32(0)
  /\ sensitivity_changed = FALSE
  /\ ev = NoEv
  /\ iter = 0

NextParse == \E d \in CdcSteps : CdcTask(d)

SpecParse == InitParse /\ [][NextParse]_vars

-----------------------------------------------------------------------------
(* The command path of hid_task alone, on every stored dx *)

JitterDeltas == {-128, -100, -34, -1, 0, 33, 100, 127}

\* buttons, wheel and pan of the stored command
JitterRest == { <<0, 0, 0>>, <<255, -128, 127>> }

InitJitter ==
  /\ now = U32(1)
  /\ rx = NoLine
  /\ pc = "hid"
  /\ \E x \in -128..127, y \in JitterDeltas, o \in JitterRest :
       /\ mouse_cmd = [buttons |-> o[1], x |-> x, y |-> y, wheel |-> o[2],
                       pan |-> o[3], has_data |-> TRUE]
       /\ hist = [elapsed |-> 1, lines |-> 1, accepted |-> 1, acceptedAt |-> 0,
                  lastLine |-> <<HeadByte, o[1], x, y, o[2], o[3],
                                 o[1] + x + y + o[2] + o[3]>>,
                  cmdReports |-> 0, button |-> 0,
                  heldSince |-> -1, changes |-> 0, pressChanges |-> 0,
                  ticks |-> 0, tickNow |-> FALSE, releaseDue |-> FALSE]
  /\ cdc_command_time = U32(0)
  /\ sensitivity_level = DefaultLevel
  /\ start_ms = U32(0)
  /\ last_button_state = 0
  /\ button_press_start_time = U32(0)
  /\ sensitivity_changed = FALSE
  /\ ev = NoEv
  /\ iter = 0

CommandTick ==
  /\ pc = "hid"
  /\ pc' = "cdc"
  /\ UNCHANGED <<now, rx, cdc_command_time, iter>>
  /\ \E b \in {0, 1}, r1 \in {0, 1}, r2 \in {0, 1} : HidCommand(b, r1, r2)

NextJitter == CommandTick

SpecJitter == InitJitter /\ [][NextJitter]_vars

-----------------------------------------------------------------------------
(* The joystick path of hid_task alone, on every raw sample and every level *)

\* x_raw over the whole ADC range, y_raw the same value or the next one
AxisPairs ==
  { <<v, v>> : v \in 0..AdcMax } \cup { <<v, v + 1>> : v \in 0..(AdcMax - 1) }

\* the sensitivity statics at 3000 ms: untouched, after one long press
\* (500 to 1500 ms), after a second one (1501 to 2501 ms)
AxisStates ==
  { [level |-> 2, changed |-> FALSE, start |-> 0, changes |-> 0],
    [level |-> 3, changed |-> TRUE, start |-> 500, changes |-> 1],
    [level |-> 1, changed |-> TRUE, start |-> 1501, changes |-> 2] }

InitAxis ==
  /\ now = U32(3000)
  /\ rx = NoLine
  /\ pc = "hid"
  /\ mouse_cmd = [buttons |-> 0, x |-> 0, y |-> 0, wheel |-> 0, pan |-> 0,
                  has_data |-> FALSE]
  /\ cdc_command_time = U32(0)
  /\ start_ms = U32(2999)
  /\ last_button_state = 0
  /\ \E a \in AxisStates :
       /\ sensitivity_level = a.level
       /\ sensitivity_changed = a.changed
       /\ button_press_start_time = U32(a.start)
       /\ hist = [elapsed |-> 3000, lines |-> 0, accepted |-> 0,
                  acceptedAt |-> -1, lastLine |-> << >>, cmdReports |-> 0,
                  button |-> 0, heldSince |-> -1, changes |-> a.changes,
                  pressChanges |-> 0, ticks |-> 2999, tickNow |-> FALSE,
                  releaseDue |-> FALSE]
  /\ ev = NoEv
  /\ iter = 0

JoystickTickOn(samples) ==
  /\ pc = "hid"
  /\ UNCHANGED <<now, rx, cdc_command_time, iter>>
  /\ \E b \in {0, 1}, raw \in samples : HidJoystick(b, raw)
  /\ pc' = HidReturn

NextAxis == JoystickTickOn(AxisPairs)

SpecAxis == InitAxis /\ [][NextAxis]_vars

\* The main loop run on from a tick at each of the three levels (the states of
\* AxisStates, key released): every step of the level cycle is taken, and the
\* key may go down or up at any tick, command ticks included.
NextPress ==
  \/ /\ iter < MaxPress
     /\ \E d \in TimeSteps, line \in {NoLine, LineAt(hist.lines)} : TudTask(d, line)
  \/ HidTask
  \/ \E d \in CdcSteps : CdcTask(d)

SpecPress == InitAxis /\ [][NextPress]_vars

-----------------------------------------------------------------------------
(* Properties of the command parser *)

\* a is the value n narrowed to 8 bits
Narrowed(a, n) == a % 256 = n % 256

SevenInts(l) == Len(l) = NumFields /\ \A i \in 1..Len(l) : l[i].k = "int"

\* n = Hi(n) * 65536 + Lo(n) with Lo(n) in 0..65535
Hi(n) == n \div 65536
Lo(n) == n % 65536

\* l[7] is the sum of l[2]..l[6] as integers, compared in halves so that no
\* number beyond 32 bits is formed
PlainSum(l) ==
  LET lows == Lo(l[2].v) + Lo(l[3].v) + Lo(l[4].v) + Lo(l[5].v) + Lo(l[6].v)
      highs == Hi(l[2].v) + Hi(l[3].v) + Hi(l[4].v) + Hi(l[5].v) + Hi(l[6].v)
  IN  /\ Lo(l[7].v) = lows % 65536
      /\ Hi(l[7].v) = highs + (lows \div 65536)

WellFormed(l) == SevenInts(l) /\ l[1].v = 55 /\ PlainSum(l)

\* C9: a line of seven integers with head 55 and checksum btn+dx+dy+wheel+pan
\* is answered "ok"; the slot then holds btn as unsigned 8-bit and dx, dy,
\* wheel, pan wrapped to signed 8-bit, and cdc_command_time is the clock.
C9_AcceptStores ==
  (ev.op = "cdc" /\ WellFormed(ev.line)) =>
    /\ ev.ack = "ok"
    /\ mouse_cmd.has_data
    /\ mouse_cmd.buttons \in 0..255 /\ Narrowed(mouse_cmd.buttons, ev.line[2].v)
    /\ mouse_cmd.x \in -128..127 /\ Narrowed(mouse_cmd.x, ev.line[3].v)
    /\ mouse_cmd.y \in -128..127 /\ Narrowed(mouse_cmd.y, ev.line[4].v)
    /\ mouse_cmd.wheel \in -128..127 /\ Narrowed(mouse_cmd.wheel, ev.line[5].v)
    /\ mouse_cmd.pan \in -128..127 /\ Narrowed(mouse_cmd.pan, ev.line[6].v)
    /\ cdc_command_time = now

\* an accepted line whose btn 256, dx 128 and dy 300 are out of range and wrap
C9_Witness ==
  /\ ev.op = "cdc" /\ WellFormed(ev.line) /\ ev.ack = "ok"
  /\ ev.line[2].v = 256 /\ mouse_cmd.buttons = 0
  /\ ev.line[3].v = 128 /\ mouse_cmd.x = -128
  /\ ev.line[4].v = 300 /\ mouse_cmd.y = 44
  /\ now = <<65535, 65535>> /\ cdc_command_time = now

\* C10: a line that is not exactly seven integer tokens is answered
\* "format error"; seven integer tokens with a head other than 55 or a wrong
\* checksum are answered "protocol error".
C10_Rejections ==
  (ev.op = "cdc" /\ ev.line # NoLine) =>
    /\ ~SevenInts(ev.line) => ev.ack = "format error"
    /\ (SevenInts(ev.line) /\ ~WellFormed(ev.line)) => ev.ack = "protocol error"

-----------------------------------------------------------------------------
(* Properties of the arbitration between serial commands and the joystick *)

JoystickSourced(r) == r.src = "move" \/ r.src = "click"

SinceAccept == hist.elapsed - hist.acceptedAt

\* the report r passes on the buttons, wheel and pan of the accepted line v
PassesOn(r, v) ==
  /\ r.src = "cmd"
  /\ r.buttons \in 0..255 /\ Narrowed(r.buttons, v[2])
  /\ r.wheel \in -128..127 /\ Narrowed(r.wheel, v[5])
  /\ r.pan \in -128..127 /\ Narrowed(r.pan, v[6])

\* C1: after a command was accepted at time T, a tick at a time now with
\* now - T < 500 ms emits no joystick-derived report (movement or click);
\* whatever is emitted in that interval comes from a command.
C1_NoJoystickInWindow ==
  (ev.op = "hid" /\ hist.accepted > 0 /\ SinceAccept < CDC_BLOCK_TIMEOUT)
    => \A i \in 1..Len(ev.reports) : ~JoystickSourced(ev.reports[i])

\* a HID-ready tick 499 ms after the acceptance, with no command pending
C1_Witness ==
  /\ ev.op = "hid" /\ ev.gate /\ ev.ready /\ ev.path = "skip"
  /\ hist.accepted > 0 /\ SinceAccept = 499

\* one step of C2, for a state with a command pending
C2_Step ==
  /\ (pc = "hid" /\ mouse_cmd.has_data) =>
        IF ev'.gate /\ ev'.ready
          THEN /\ ev'.path = "cmd"
               /\ Len(ev'.reports) = 1
               /\ PassesOn(ev'.reports[1], hist.lastLine)
               /\ ~mouse_cmd'.has_data
          ELSE mouse_cmd' = mouse_cmd /\ ev'.reports = << >>
  /\ (pc # "hid" /\ mouse_cmd.has_data) => mouse_cmd'.has_data

\* C2: a pending command is emitted by the first hid_task call that passes
\* the time gate with HID ready, inside the block window or not; a call that
\* does not pass the gate or finds HID not ready leaves the slot as it is;
\* and the slot is emptied by nothing but that emission.
C2_PendingEmitted == [][C2_Step]_vars

\* a command emitted 499 ms after its acceptance, inside the block window
C2_Witness ==
  /\ ev.op = "hid" /\ ev.path = "cmd" /\ Len(ev.reports) = 1
  /\ SinceAccept = 499
  /\ ~mouse_cmd.has_data

\* C3: the slot holds one command, the last accepted one: a newer accepted
\* command replaces every field of an unconsumed one, and a command report
\* always carries the last accepted command, never an earlier one.
C3_OnePending ==
  /\ mouse_cmd.has_data =>
        /\ hist.accepted > 0
        /\ Narrowed(mouse_cmd.buttons, hist.lastLine[2])
        /\ Narrowed(mouse_cmd.x, hist.lastLine[3])
        /\ Narrowed(mouse_cmd.y, hist.lastLine[4])
        /\ Narrowed(mouse_cmd.wheel, hist.lastLine[5])
        /\ Narrowed(mouse_cmd.pan, hist.lastLine[6])
  /\ \A i \in 1..Len(ev.reports) :
        ev.reports[i].src = "cmd" => PassesOn(ev.reports[i], hist.lastLine)

\* two commands were accepted and the only command report made is the second's
C3_Witness ==
  /\ ev.op = "hid" /\ ev.path = "cmd"
  /\ hist.accepted = 2 /\ hist.cmdReports = 1
  /\ hist.lastLine = ScanInts(LineB)
  /\ ev.reports[1].buttons = 2

\* C4: an accepted command gives at most one report: the emission clears
\* has_data, and command reports never outnumber accepted commands.
C4_AtMostOnce ==
  /\ hist.cmdReports <= hist.accepted
  /\ (ev.op = "hid" /\ ev.path = "cmd") => ~mouse_cmd.has_data

\* after the one accepted command was reported, a later ready tick reports none
C4_Witness ==
  /\ ev.op = "hid" /\ ev.gate /\ ev.ready /\ ev.path \in {"skip", "joy"}
  /\ hist.accepted = 1 /\ hist.cmdReports = 1

\* C5: one call of hid_task hands at most one report to the HID transport,
\* and none when the transport is not ready.
C5_OneReportPerTick ==
  ev.op = "hid" =>
    /\ Len(ev.reports) <= 1
    /\ (~ev.gate \/ ~ev.ready) => ev.reports = << >>

\* a joystick tick with both a movement and an unconverted press: one report
C5_Witness ==
  /\ ev.op = "hid" /\ ev.path = "joy"
  /\ hist.button = 1 /\ ~sensitivity_changed
  /\ Len(ev.reports) = 1 /\ ev.reports[1].src = "move"

-----------------------------------------------------------------------------
(* Properties of the sensitivity state machine *)

\* C6: the sensitivity level is 1, 2 or 3 in every reachable state.
C6_LevelInRange == sensitivity_level \in 1..NumLevels

\* the level wrapped from 3 back to 1
C6_Witness == sensitivity_level = 1 /\ hist.changes = 2 /\ ev.changed

\* one step of C7: what a change of the level looks like
C7_Step ==
  sensitivity_level' # sensitivity_level =>
    /\ sensitivity_level' = (sensitivity_level % 3) + 1
    /\ hist.pressChanges = 0

\* C7: every change of the level is the cyclic successor step, and no second
\* change happens unless the button was released since the previous one.
C7_CyclicOncePerPress == [][C7_Step]_vars

\* a further change, in a later press and after a release, from level 1 to 2
C7_Witness ==
  /\ ev.op = "hid" /\ ev.changed
  /\ sensitivity_level = 2
  /\ hist.changes = 3 /\ hist.pressChanges = 1

\* C8: the level changes only at a tick at which the button has been down at
\* every tick of the last 1000 ms, skipped ticks included.
C8_HeldThroughout ==
  ev.changed =>
    /\ hist.button = 1
    /\ hist.heldSince >= 0
    /\ hist.elapsed - hist.heldSince >= BUTTON_PRESS_TIMEOUT

-----------------------------------------------------------------------------
(* Rejected lines *)

Rejected(e) == e.op = "cdc" /\ e.ack \in {"protocol error", "format error"}

\* C11: a line answered with "protocol error" or "format error" leaves the
\* pending slot (every field and has_data), cdc_command_time and the
\* sensitivity state as they were: it stores no command and neither starts
\* nor extends the joystick-suppression window.
C11_RejectKeeps ==
  [][Rejected(ev') =>
       /\ mouse_cmd' = mouse_cmd
       /\ cdc_command_time' = cdc_command_time
       /\ sensitivity_level' = sensitivity_level
       /\ last_button_state' = last_button_state
       /\ button_press_start_time' = button_press_start_time
       /\ sensitivity_changed' = sensitivity_changed]_vars

\* a checksum failure at clock 1234 with a command pending since clock 0
C11_Witness ==
  /\ Rejected(ev)
  /\ ev.ack = "protocol error"
  /\ mouse_cmd.has_data
  /\ now = U32(1234)
  /\ cdc_command_time = U32(0)

-----------------------------------------------------------------------------
(* What a joystick-path tick sends *)

JoystickTick == ev.op = "hid" /\ ev.path = "joy"

\* C12: on a joystick-path tick with a non-zero scaled delta exactly one
\* movement report (buttons 0, the scaled dx and dy, wheel 0, pan 0) is sent
\* and no click; with both deltas zero a left-click report (buttons 1, dx 0,
\* dy 0) is sent exactly if the button reads pressed and no sensitivity
\* conversion has happened during the current press, this tick included;
\* otherwise nothing is sent.
C12_JoystickReport ==
  JoystickTick =>
    LET mouse_x == ev.scaled[1]
        mouse_y == ev.scaled[2]
    IN  IF mouse_x # 0 \/ mouse_y # 0
          THEN ev.reports = << Report("move", 0, mouse_x, mouse_y, 0, 0) >>
        ELSE IF hist.button = 1 /\ hist.pressChanges = 0
          THEN ev.reports = << Report("click", 1, 0, 0, 0, 0) >>
        ELSE ev.reports = << >>

-----------------------------------------------------------------------------
(* The deltas of a command report *)

CommandTickDone == ev.op = "hid" /\ ev.path = "cmd" /\ Len(ev.reports) = 1

\* q is n / 100 with the fraction dropped (rounded toward zero)
TowardZero(q, n) ==
  IF n >= 0 THEN 100 * q <= n /\ n < 100 * q + 100
            ELSE 100 * q - 100 < n /\ n <= 100 * q

\* q is the largest integer not above n / 100
FloorOf(q, n) == 100 * q <= n /\ n < 100 * q + 100

\* out is the 8-bit two's complement value of n
SameByte(out, n) == out \in -128..127 /\ (out - n) % 256 = 0

\* the claimed delta: d + (r - 2) + floor(d * 3 / 100) for some r in {0, 1}
FloorDelta(out, d) ==
  \E r \in {0, 1}, q \in -4..3 : FloorOf(q, 3 * d) /\ out = d + (r - 2) + q

\* the delta of line 378 and 381: d plus (r - 2) + d * 3 / 100 cut to an
\* integer, passed as an int8_t
TruncDelta(out, d) ==
  \E r \in {0, 1}, j \in -6..4 :
    TowardZero(j, (r - 2) * 100 + 3 * d) /\ SameByte(out, d + j)

OthersPassed ==
  /\ ev.reports[1].buttons = mouse_cmd.buttons
  /\ ev.reports[1].wheel = mouse_cmd.wheel
  /\ ev.reports[1].pan = mouse_cmd.pan

\* C13 as stated: the command report carries dx + (r - 2) + floor(dx * 3 / 100)
\* with r in {0, 1}, dy likewise, and buttons, wheel and pan as stored, for
\* every dx and dy of the signed 8-bit range.
C13_FloorJitter ==
  CommandTickDone =>
    /\ FloorDelta(ev.reports[1].x, mouse_cmd.x)
    /\ FloorDelta(ev.reports[1].y, mouse_cmd.y)
    /\ OthersPassed

\* C13 amended: the command report carries dx + J reduced to 8 bits, where J is
\* (r - 2) + dx * 3 / 100 rounded toward zero as a whole, r in {0, 1}; dy
\* likewise; buttons, wheel and pan are passed as stored.
C13_TruncJitter ==
  CommandTickDone =>
    /\ TruncDelta(ev.reports[1].x, mouse_cmd.x)
    /\ TruncDelta(ev.reports[1].y, mouse_cmd.y)
    /\ OthersPassed

\* dx = 10 is sent as 10: 1 - 2 + 0.3 is cut to 0, where the floor form gives
\* 8 or 9; dy = -128 is sent as 123
C13_Witness ==
  /\ CommandTickDone
  /\ mouse_cmd.x = 10
  /\ ev.reports[1].x = 10
  /\ mouse_cmd.y = -128
  /\ ev.reports[1].y = 123
  /\ ev.reports[1].buttons = 255

-----------------------------------------------------------------------------
(* The axis mapping and the sensitivity scaling *)

Abs(n) == IF n < 0 THEN -n ELSE n

Deflection(v) == Abs(v - 2048)

OutsideSameSide(v1, v2) == (v1 > 2148 /\ v2 > 2148) \/ (v1 < 1948 /\ v2 < 1948)

\* a mapped delta is within -127..127, never of the sign opposite to v - 2048,
\* and 0 in the deadzone
AxisBounded(v, d) ==
  /\ d \in -127..127
  /\ d * (v - 2048) >= 0
  /\ v \in 1948..2148 => d = 0

\* C14: the axis mapping of read_joystick is monotonic and bounded: of two raw
\* samples on the same side of the center and outside the deadzone, the one
\* deflected further from 2048 never maps to the delta of smaller magnitude;
\* every raw value in 1948..2148 maps to 0; every mapped delta lies in
\* -127..127 and has the sign of v - 2048.
C14_AxisMapping ==
  JoystickTick =>
    LET v1 == ev.raw[1]
        v2 == ev.raw[2]
        d1 == ev.joy[1]
        d2 == ev.joy[2]
    IN  /\ AxisBounded(v1, d1)
        /\ AxisBounded(v2, d2)
        /\ OutsideSameSide(v1, v2) =>
             /\ Deflection(v2) >= Deflection(v1) => Abs(d2) >= Abs(d1)
             /\ Deflection(v1) >= Deflection(v2) => Abs(d1) >= Abs(d2)

\* neighbouring samples at the top of the range map to 126 and 127
C14_Witness ==
  /\ JoystickTick
  /\ ev.raw = <<4094, 4095>>
  /\ ev.joy = <<126, 127>>

\* C15: for every fixed pair of raw samples the magnitude of the scaled
\* delta, on the X axis and on the Y axis, at level 1 is at least that at
\* level 2, which is at least that at level 3.
C15_LevelOrder ==
  JoystickTick =>
    /\ ev.scaled = ScaledAt(ev.joy, sensitivity_level)
    /\ \A l \in 1..2, axis \in 1..2 :
         Abs(ScaledAt(ev.joy, l)[axis]) >= Abs(ScaledAt(ev.joy, l + 1)[axis])

-----------------------------------------------------------------------------
(* The 1 ms time gate *)

GatePassed == ev.op = "hid" /\ ev.gate

\* C16 as stated: two executions of hid_task that pass its time gate never
\* happen at the same millisecond clock value, also after the main loop was
\* delayed by several milliseconds.
C16_TicksApart == GatePassed => ~ev.again

\* C16 amended: the executions of hid_task that have passed the time gate never
\* outnumber the milliseconds elapsed since start (start_ms never runs ahead
\* of the clock); after a delay the missed ticks are made up one per call, at
\* the same clock value.
C16_NoTickAhead == hist.ticks <= hist.elapsed

\* after a 499 ms delay a second execution passes the gate at clock 499
C16_Witness ==
  /\ GatePassed
  /\ ev.again
  /\ hist.elapsed = 499
  /\ hist.ticks = 2

-----------------------------------------------------------------------------
(* Skipped ticks *)

SkippedTick(e) == e.op = "hid" /\ e.gate /\ e.path \in {"notready", "skip"}

\* C17: a tick skipped because HID is not ready, or because no command is
\* pending and the clock is within 500 ms of cdc_command_time, leaves
\* sensitivity_level, last_button_state, button_press_start_time and
\* sensitivity_changed unchanged and sends no report; a button edge that
\* falls on such a tick is not observed.
C17_SkipKeeps ==
  [][SkippedTick(ev') =>
       /\ sensitivity_level' = sensitivity_level
       /\ last_button_state' = last_button_state
       /\ button_press_start_time' = button_press_start_time
       /\ sensitivity_changed' = sensitivity_changed
       /\ ev'.reports = << >>]_vars

\* the button went down on a tick skipped by the window and is not recorded
C17_Witness ==
  /\ SkippedTick(ev)
  /\ ev.path = "skip"
  /\ hist.button = 1
  /\ last_button_state = 0

-----------------------------------------------------------------------------
(* What suppresses the joystick path *)

\* C18: the joystick path is suppressed only by an accepted command: when no
\* valid command was accepted in the preceding 500 ms, in particular when none
\* was ever accepted, every HID-ready tick with no command pending runs the
\* joystick path, also in the first 500 ms after start-up.
C18_OnlyCommandsBlock ==
  ( /\ GatePassed /\ ev.ready /\ ev.path # "cmd"
    /\ (hist.accepted = 0 \/ SinceAccept >= 500) )
    => ev.path = "joy"

-----------------------------------------------------------------------------
(* The 8-bit range of a command report *)

\* out is d plus the jitter of line 377, taken without reduction to 8 bits
Unwrapped(out, d) ==
  \E r \in {0, 1}, j \in -6..4 :
    /\ TowardZero(j, (r - 2) * 100 + 3 * d)
    /\ d + j \in -128..127
    /\ out = d + j

\* C19: a command report never wraps in 8 bits: the command dx plus its
\* jitter, and likewise dy, lies in -128..127 and is the value sent, so a
\* command of large magnitude (dx = 127 or -128) is never sent with the
\* opposite sign.
C19_NoWrap ==
  CommandTickDone =>
    /\ Unwrapped(ev.reports[1].x, mouse_cmd.x)
    /\ Unwrapped(ev.reports[1].y, mouse_cmd.y)

-----------------------------------------------------------------------------
(* The release after a joystick click *)

\* a joystick-path tick that read the button released with the stick in the
\* deadzone, sent nothing and left the sensitivity statics as they were: every
\* later tick with the same readings repeats it
AtRest ==
  /\ JoystickTick
  /\ hist.button = 0
  /\ ev.scaled = <<0, 0>>
  /\ ev.reports = << >>
  /\ ev.same

\* C20: a joystick click is always released: after a left-click report
\* (buttons 1), with the button released and the joystick path running on
\* every tick, a report with buttons 0 is sent, also with the stick in the
\* deadzone; so the joystick path never comes to rest while the click is
\* the last report sent.
C20_ClickReleased == ~(hist.releaseDue /\ AtRest)

====
